---- MODULE Spec2Model ----
(***************************************************************************)
(* Model of the HTA schema validators:                                     *)
(*   src/validator/hta_validator.py         HTASchemaValidator             *)
(*   src/validator/expression_validator.py  ExpressionValidator            *)
(*                                                                         *)
(* Python dicts whose iteration order the code uses (nodes, parameters)    *)
(* are sequences of <<key, value>> pairs with distinct keys, in insertion  *)
(* order.  JSON objects whose fields are only looked up (node, branch,     *)
(* value reference, parameter) are records; an optional field is a field   *)
(* that may be missing from the record's DOMAIN.  Strings the code scans   *)
(* character by character (expressions, parameter identifiers) are         *)
(* sequences of one-character strings.  Numbers are fixed-point integers   *)
(* in units of 1/One.                                                      *)
(***************************************************************************)
EXTENDS Integers, Sequences, FiniteSets, TLC

\* HTASchemaValidator: self.model, self.errors, self.warnings, the value
\* validate() returned, and whether a model is loaded, validated once or
\* twice, or validate() ended in an exception.
\* ExpressionValidator: self.parameters, self.errors, the value the last
\* validate_expression returned, its argument, len(self.errors) before the
\* last call, and the number of calls (validate_expression or
\* validate_model) so far.
VARIABLES model, errors, warnings, ret, pc,
          parameters, ev_errors, ev_ret, ev_expr, ev_mark, ev_calls

vars == <<model, errors, warnings, ret, pc,
          parameters, ev_errors, ev_ret, ev_expr, ev_mark, ev_calls>>

treeVars == <<model, errors, warnings, ret, pc>>
exprVars == <<parameters, ev_errors, ev_ret, ev_expr, ev_mark, ev_calls>>

(***************************************************************************)
(* Python dict / list helpers                                              *)
(***************************************************************************)
Range(s) == {s[i] : i \in DOMAIN s}

DictKeys(d) == {d[i][1] : i \in DOMAIN d}

DictValues(d) == [i \in DOMAIN d |-> d[i][2]]

DictGet(d, k) == d[CHOOSE i \in DOMAIN d : d[i][1] = k][2]

\* rec.get(field, <<>>) for a list-valued field
GetList(rec, field) == IF field \in DOMAIN rec THEN rec[field] ELSE <<>>

\* rec.get(field, {}) for an object-valued field
GetObj(rec, field) == IF field \in DOMAIN rec THEN rec[field] ELSE << >>

\* rec.get(field) for a string-valued field; "" stands for None (both falsy)
GetStr(rec, field) == IF field \in DOMAIN rec THEN rec[field] ELSE ""

\* owner.get(field, {}).get('parameter_ref'); << >> stands for None / ''
NoRef == << >>

ParamRefOf(owner, field) ==
    IF field \in DOMAIN owner /\ "parameter_ref" \in DOMAIN owner[field]
    THEN owner[field]["parameter_ref"]
    ELSE NoRef

\* a value written as a bare JSON number n is the record [literal |-> n]:
\* it is an int or a float, not a dict
IsNumber(v) == "literal" \in DOMAIN v

\* owner.get(field, {}).get('parameter_ref') raises AttributeError when the
\* value stored under field is a number, which has no attribute 'get'
GetRaises(owner, field) ==
    field \in DOMAIN owner /\ IsNumber(owner[field])

(***************************************************************************)
(* Numbers: fixed point, One stands for 1.0.  One is a power of two, so    *)
(* every value of the model is a binary fraction that a float holds        *)
(* exactly and float addition of the model's values is exact.              *)
(***************************************************************************)
One == 16384

\* tolerance = 1e-4 = ToleranceNum / ToleranceDen
ToleranceNum == 1
ToleranceDen == 10000

Abs(x) == IF x < 0 THEN -x ELSE x

\* a comparison that forgets abs(): prob_sum - 1.0 > tolerance
ExceedsTolerance_NoAbs(prob_sum) ==
    (prob_sum - One) * ToleranceDen > ToleranceNum * One

\* abs(prob_sum - 1.0) > tolerance
ExceedsTolerance(prob_sum) ==
    Abs(prob_sum - One) * ToleranceDen > ToleranceNum * One

(***************************************************************************)
(* HTASchemaValidator._validate_structure                                  *)
(***************************************************************************)
required_fields ==
    <<"schema_version", "model_metadata", "model_structure",
      "parameters", "analysis_settings">>

RECURSIVE MissingFields(_, _)
MissingFields(m, i) ==
    IF i > Len(required_fields) THEN << >>
    ELSE (IF required_fields[i] \in DOMAIN m THEN << >>
          ELSE << <<"Missing required field", required_fields[i]>> >>)
         \o MissingFields(m, i + 1)

\* schema_version is modelled by whether it starts with '0.1.'
validate_structure(m) ==
    [errors |->
        MissingFields(m, 1)
        \o (IF "model_metadata" \in DOMAIN m
               /\ GetStr(m["model_metadata"], "model_type") # "decision_tree"
            THEN << <<"Model type not supported in v0.1",
                      GetStr(m["model_metadata"], "model_type")>> >>
            ELSE << >>),
     warnings |->
        IF "schema_version" \in DOMAIN m /\ m["schema_version"] # "0.1.x"
        THEN << <<"Schema version may not match validator version 0.1",
                  m["schema_version"]>> >>
        ELSE << >>]

(***************************************************************************)
(* HTASchemaValidator._validate_tree_properties                            *)
(***************************************************************************)
\* nodes.get(node_id) is falsy: key missing, or the node is an empty object
NodeFalsy(nodes, node_id) ==
    \/ node_id \notin DictKeys(nodes)
    \/ DOMAIN DictGet(nodes, node_id) = {}

\* a cycle check that never looks at the recursion stack
OnRecStack_NoCheck(target, st) == FALSE

\* elif target in rec_stack
OnRecStack(target, st) == target \in st.rec_stack

\* has_cycle: st = [visited, rec_stack]; the result carries the two sets on
RECURSIVE has_cycle(_, _, _)
RECURSIVE has_cycle_branches(_, _, _, _, _)

has_cycle(nodes, node_id, st) ==
    LET st1 == [visited   |-> st.visited \cup {node_id},
                rec_stack |-> st.rec_stack \cup {node_id}]
    IN  IF NodeFalsy(nodes, node_id)
        THEN [ret |-> FALSE, visited |-> st1.visited,
              rec_stack |-> st1.rec_stack]
        ELSE has_cycle_branches(nodes, node_id,
                 GetList(DictGet(nodes, node_id), "branches"), 1, st1)

has_cycle_branches(nodes, node_id, branches, i, st) ==
    IF i > Len(branches)
    THEN [ret |-> FALSE, visited |-> st.visited,
          rec_stack |-> st.rec_stack \ {node_id}]
    ELSE LET target == GetStr(branches[i], "target_node")
         IN  IF target = ""
             THEN has_cycle_branches(nodes, node_id, branches, i + 1, st)
             ELSE IF target \notin st.visited
             THEN LET r == has_cycle(nodes, target, st)
                  IN  IF r.ret THEN r
                      ELSE has_cycle_branches(nodes, node_id, branches, i + 1,
                               [visited |-> r.visited,
                                rec_stack |-> r.rec_stack])
             ELSE IF OnRecStack(target, st)
             THEN [ret |-> TRUE, visited |-> st.visited,
                   rec_stack |-> st.rec_stack]
             ELSE has_cycle_branches(nodes, node_id, branches, i + 1, st)

\* a traversal that follows only the first branch of a node
PushTargets_FirstOnly(branches, i, reachable, stack) ==
    IF i > Len(branches) THEN stack
    ELSE LET target == GetStr(branches[i], "target_node")
         IN  IF target # "" /\ target \notin reachable
             THEN Append(stack, target) ELSE stack

\* the targets a node pushes on the stack, in branch order
RECURSIVE PushTargets(_, _, _, _)
PushTargets(branches, i, reachable, stack) ==
    IF i > Len(branches) THEN stack
    ELSE LET target == GetStr(branches[i], "target_node")
         IN  PushTargets(branches, i + 1, reachable,
                 IF target # "" /\ target \notin reachable
                 THEN Append(stack, target) ELSE stack)

RECURSIVE reachable_loop(_, _, _)
reachable_loop(nodes, stack, reachable) ==
    IF stack = << >> THEN reachable
    ELSE LET node_id == stack[Len(stack)]
             rest    == SubSeq(stack, 1, Len(stack) - 1)
         IN  IF node_id \in reachable
             THEN reachable_loop(nodes, rest, reachable)
             ELSE LET reach1 == reachable \cup {node_id}
                  IN  IF NodeFalsy(nodes, node_id)
                      THEN reachable_loop(nodes, rest, reach1)
                      ELSE reachable_loop(nodes,
                               PushTargets(GetList(DictGet(nodes, node_id),
                                                   "branches"),
                                           1, reach1, rest),
                               reach1)

get_reachable_nodes(start, nodes) == reachable_loop(nodes, <<start>>, {})

terminal_count(nodes) ==
    Cardinality({i \in DOMAIN nodes :
                    GetStr(nodes[i][2], "node_type") = "terminal"})

validate_tree_properties(m) ==
    IF "model_structure" \notin DOMAIN m
    THEN [errors |-> << >>, warnings |-> << >>]
    ELSE
    LET structure == m["model_structure"]
        nodes     == GetList(structure, "nodes")
        root_id   == GetStr(structure, "root_node")
    IN  IF root_id = ""
        THEN [errors |-> << <<"No root_node specified">> >>,
              warnings |-> << >>]
        ELSE IF root_id \notin DictKeys(nodes)
        THEN [errors |-> << <<"Root node not found in nodes", root_id>> >>,
              warnings |-> << >>]
        ELSE
        LET root_node   == DictGet(nodes, root_id)
            unreachable == DictKeys(nodes) \ get_reachable_nodes(root_id, nodes)
        IN  [errors |->
                (IF GetStr(root_node, "node_type") # "decision"
                 THEN << <<"Root node must be 'decision' type",
                           GetStr(root_node, "node_type")>> >>
                 ELSE << >>)
                \o (IF has_cycle(nodes, root_id,
                                 [visited |-> {}, rec_stack |-> {}]).ret
                    THEN << <<"Model contains cycles (not a valid tree)">> >>
                    ELSE << >>)
                \o (IF terminal_count(nodes) = 0
                    THEN << <<"No terminal nodes found - all paths must terminate">> >>
                    ELSE << >>),
             warnings |->
                IF unreachable # {}
                THEN << <<"Unreachable nodes", unreachable>> >>
                ELSE << >>]

(***************************************************************************)
(* HTASchemaValidator._validate_probabilities                              *)
(***************************************************************************)
\* parameters.get(prob_ref) is truthy: defined and not an empty object
ParamTruthy(params, ref) ==
    /\ ref \in DictKeys(params)
    /\ DOMAIN DictGet(params, ref) # {}

\* param.get('base_value', 0.0)
BaseValueOr0(param) ==
    IF "base_value" \in DOMAIN param THEN param["base_value"] ELSE 0

\* the loop over one chance node's branches:
\* acc = [prob_sum, prob_refs, errors, raised]; an exception ends the loop
RECURSIVE prob_branches(_, _, _, _)
prob_branches(params, branches, i, acc) ==
    IF i > Len(branches) THEN acc
    ELSE IF GetRaises(branches[i], "probability")
    THEN [acc EXCEPT !.raised = TRUE]
    ELSE LET prob_ref == ParamRefOf(branches[i], "probability")
         IN  IF prob_ref = NoRef
             THEN prob_branches(params, branches, i + 1, acc)
             ELSE IF ParamTruthy(params, prob_ref)
             THEN prob_branches(params, branches, i + 1,
                      [prob_sum  |-> acc.prob_sum
                                      + BaseValueOr0(DictGet(params, prob_ref)),
                       prob_refs |-> Append(acc.prob_refs, prob_ref),
                       errors    |-> acc.errors,
                       raised    |-> FALSE])
             ELSE prob_branches(params, branches, i + 1,
                      [prob_sum  |-> acc.prob_sum,
                       prob_refs |-> Append(acc.prob_refs, prob_ref),
                       errors    |-> Append(acc.errors,
                           <<"Parameter referenced but not defined", prob_ref>>),
                       raised    |-> FALSE])

\* the errors one node adds, and whether its loop raised
prob_node(params, node_id, node) ==
    IF GetStr(node, "node_type") # "chance"
    THEN [errors |-> << >>, raised |-> FALSE]
    ELSE LET acc == prob_branches(params, GetList(node, "branches"), 1,
                        [prob_sum |-> 0, prob_refs |-> << >>, errors |-> << >>,
                         raised |-> FALSE])
         IN  IF acc.raised
             THEN [errors |-> acc.errors, raised |-> TRUE]
             ELSE [errors |-> acc.errors
                     \o (IF ExceedsTolerance(acc.prob_sum)
                         THEN << <<"Probabilities in chance node sum to, should be 1.0",
                                   node_id, acc.prob_sum, acc.prob_refs>> >>
                         ELSE << >>),
                   raised |-> FALSE]

RECURSIVE prob_nodes(_, _, _)
prob_nodes(params, nodes, i) ==
    IF i > Len(nodes) THEN [errors |-> << >>, raised |-> FALSE]
    ELSE LET h == prob_node(params, nodes[i][1], nodes[i][2])
         IN  IF h.raised THEN h
             ELSE LET t == prob_nodes(params, nodes, i + 1)
                  IN  [errors |-> h.errors \o t.errors, raised |-> t.raised]

validate_probabilities(m) ==
    IF "model_structure" \notin DOMAIN m
    THEN [errors |-> << >>, warnings |-> << >>, raised |-> FALSE]
    ELSE LET r == prob_nodes(GetList(m, "parameters"),
                             GetList(m["model_structure"], "nodes"), 1)
         IN  [errors |-> r.errors, warnings |-> << >>, raised |-> r.raised]

(***************************************************************************)
(* HTASchemaValidator._validate_parameter_references                       *)
(***************************************************************************)
ItemRefs(item) ==
    {ParamRefOf(item, "value"), ParamRefOf(item, "duration_years")}

ListRefs(items) == UNION {ItemRefs(items[i]) : i \in DOMAIN items}

\* the references one node adds to `referenced`
NodeRefs(node) ==
    LET branches == GetList(node, "branches")
        outcomes == GetObj(node, "outcomes")
    IN  (UNION {{ParamRefOf(branches[i], "probability"),
                 ParamRefOf(branches[i], "initial_cost")} :
                i \in DOMAIN branches}
         \cup (IF DOMAIN outcomes # {}
               THEN ListRefs(GetList(outcomes, "costs"))
                    \cup ListRefs(GetList(outcomes, "utilities"))
                    \cup {ParamRefOf(outcomes, "life_years")}
               ELSE {}))
        \ {NoRef}

Referenced(nodes) == UNION {NodeRefs(nodes[i][2]) : i \in DOMAIN nodes}

\* one of the chained .get calls of the loop meets a number
ItemRaises(item) ==
    GetRaises(item, "value") \/ GetRaises(item, "duration_years")

NodeRaises(node) ==
    LET branches == GetList(node, "branches")
        outcomes == GetObj(node, "outcomes")
    IN  \/ \E i \in DOMAIN branches :
              \/ GetRaises(branches[i], "probability")
              \/ GetRaises(branches[i], "initial_cost")
        \/ /\ DOMAIN outcomes # {}
           /\ \/ \E i \in DOMAIN GetList(outcomes, "costs") :
                     ItemRaises(GetList(outcomes, "costs")[i])
              \/ \E i \in DOMAIN GetList(outcomes, "utilities") :
                     ItemRaises(GetList(outcomes, "utilities")[i])
              \/ GetRaises(outcomes, "life_years")

\* the order in which Python iterates a set: some fixed order of its elements
RECURSIVE SetToSeq(_)
SetToSeq(S) ==
    IF S = {} THEN << >>
    ELSE LET x == CHOOSE y \in S : TRUE
         IN  <<x>> \o SetToSeq(S \ {x})

RECURSIVE UndefinedRefs(_, _, _)
UndefinedRefs(params, refs, i) ==
    IF i > Len(refs) THEN << >>
    ELSE (IF refs[i] \notin DictKeys(params)
          THEN << <<"Referenced parameter not defined in parameters section",
                    refs[i]>> >>
          ELSE << >>)
         \o UndefinedRefs(params, refs, i + 1)

validate_parameter_references(m) ==
    IF "model_structure" \notin DOMAIN m \/ "parameters" \notin DOMAIN m
    THEN [errors |-> << >>, warnings |-> << >>, raised |-> FALSE]
    ELSE LET nodes      == GetList(m["model_structure"], "nodes")
             params     == m["parameters"]
             referenced == Referenced(nodes)
             unused     == DictKeys(params) \ referenced
         IN  IF \E i \in DOMAIN nodes : NodeRaises(nodes[i][2])
             THEN [errors |-> << >>, warnings |-> << >>, raised |-> TRUE]
             ELSE [errors   |-> UndefinedRefs(params, SetToSeq(referenced), 1),
                   warnings |-> IF unused # {}
                                THEN << <<"Unused parameters (not referenced in model)",
                                          unused>> >>
                                ELSE << >>,
                   raised   |-> FALSE]

(***************************************************************************)
(* HTASchemaValidator._validate_parameter_ranges                           *)
(***************************************************************************)
\* the type-specific check of one parameter: [errors, warnings]
range_type(param_id, param_type, base_value) ==
    IF param_type = "probability"
    THEN [errors |-> IF ~(0 <= base_value /\ base_value <= One)
                     THEN << <<"outside valid range [0.0, 1.0]",
                               param_id, base_value>> >>
                     ELSE << >>,
          warnings |-> << >>]
    ELSE IF param_type = "utility"
    THEN [errors |-> << >>,
          warnings |-> IF base_value < -One \/ base_value > One
                       THEN << <<"outside typical range [-1.0, 1.0]",
                                 param_id, base_value>> >>
                       ELSE << >>]
    ELSE IF param_type = "cost"
    THEN [errors |-> << >>,
          warnings |-> IF base_value < 0
                       THEN << <<"has negative base_value (cost)",
                                 param_id, base_value>> >>
                       ELSE << >>]
    ELSE IF param_type \in {"rate", "duration"}
    THEN [errors |-> IF base_value < 0
                     THEN << <<"has negative base_value",
                               param_id, param_type, base_value>> >>
                     ELSE << >>,
          warnings |-> << >>]
    ELSE IF param_type = "relative_risk"
    THEN [errors |-> IF base_value <= 0
                     THEN << <<"has non-positive base_value",
                               param_id, base_value>> >>
                     ELSE << >>,
          warnings |-> << >>]
    ELSE [errors |-> << >>, warnings |-> << >>]

\* a bounds check that compares only against the lower bound
range_bounds_LowerOnly(param_id, param, base_value) ==
    LET bounds == GetObj(param, "bounds")
    IN  IF "lower" \in DOMAIN bounds /\ base_value < bounds["lower"]
        THEN << <<"below lower bound", param_id, base_value, bounds["lower"]>> >>
        ELSE << >>

\* the bounds check of one parameter: warnings only
range_bounds(param_id, param, base_value) ==
    LET bounds == GetObj(param, "bounds")
    IN  IF DOMAIN bounds = {} THEN << >>
        ELSE (IF "lower" \in DOMAIN bounds /\ base_value < bounds["lower"]
              THEN << <<"below lower bound", param_id, base_value,
                        bounds["lower"]>> >>
              ELSE << >>)
             \o (IF "upper" \in DOMAIN bounds /\ base_value > bounds["upper"]
                 THEN << <<"above upper bound", param_id, base_value,
                           bounds["upper"]>> >>
                 ELSE << >>)

range_param(param_id, param) ==
    IF "base_value" \notin DOMAIN param
    THEN [errors |-> << >>, warnings |-> << >>]
    ELSE LET t == range_type(param_id, GetStr(param, "type"), param["base_value"])
         IN  [errors   |-> t.errors,
              warnings |-> t.warnings
                           \o range_bounds(param_id, param, param["base_value"])]

RECURSIVE range_params(_, _)
range_params(params, i) ==
    IF i > Len(params) THEN [errors |-> << >>, warnings |-> << >>]
    ELSE LET h == range_param(params[i][1], params[i][2])
             t == range_params(params, i + 1)
         IN  [errors |-> h.errors \o t.errors,
              warnings |-> h.warnings \o t.warnings]

validate_parameter_ranges(m) ==
    IF "parameters" \notin DOMAIN m
    THEN [errors |-> << >>, warnings |-> << >>]
    ELSE range_params(m["parameters"], 1)

(***************************************************************************)
(* HTASchemaValidator.validate                                             *)
(***************************************************************************)
\* raised: an exception left validate(); errors and warnings are then what
\* the passes had appended before it, and nothing is returned
validate(m) ==
    IF DOMAIN m = {}
    THEN [is_valid |-> FALSE, errors |-> << <<"No model loaded">> >>,
          warnings |-> << >>, raised |-> FALSE]
    ELSE LET s == validate_structure(m)
             t == validate_tree_properties(m)
             p == validate_probabilities(m)
             r == validate_parameter_references(m)
             g == validate_parameter_ranges(m)
             errs == s.errors \o t.errors \o p.errors \o r.errors \o g.errors
         IN  IF p.raised
             THEN [is_valid |-> FALSE,
                   errors   |-> s.errors \o t.errors \o p.errors,
                   warnings |-> s.warnings \o t.warnings,
                   raised   |-> TRUE]
             ELSE IF r.raised
             THEN [is_valid |-> FALSE,
                   errors   |-> s.errors \o t.errors \o p.errors,
                   warnings |-> s.warnings \o t.warnings \o p.warnings,
                   raised   |-> TRUE]
             ELSE [is_valid |-> Len(errs) = 0,
                   errors   |-> errs,
                   warnings |-> s.warnings \o t.warnings \o p.warnings
                                \o r.warnings \o g.warnings,
                   raised   |-> FALSE]

(***************************************************************************)
(* State machine of HTASchemaValidator: a model is loaded, validate() runs *)
(***************************************************************************)
\* the state of an ExpressionValidator nobody uses
ExprIdle ==
    /\ parameters = << >>
    /\ ev_errors = << >>
    /\ ev_ret = TRUE
    /\ ev_expr = << >>
    /\ ev_mark = 0
    /\ ev_calls = 0

\* the state of an HTASchemaValidator nobody uses
TreeIdle ==
    /\ model = << >>
    /\ errors = << >>
    /\ warnings = << >>
    /\ ret = TRUE
    /\ pc = "idle"

\* __init__ followed by load_model(m)
Loaded(m) ==
    /\ model = m
    /\ errors = << >>
    /\ warnings = << >>
    /\ ret = TRUE
    /\ pc = "loaded"

\* self.errors = [] and self.warnings = [] at the top of validate()
ResetDiagnostics_Keep(old) == old

ResetDiagnostics(old) == << >>

\* one call of validate(); the call after the first one that returned leaves
\* pc = "revalidated", a call that ends in an exception leaves pc = "raised"
Validate ==
    /\ pc \in {"loaded", "validated"}
    /\ LET v == validate(model)
       IN  /\ errors' = ResetDiagnostics(errors) \o v.errors
           /\ warnings' = ResetDiagnostics(warnings) \o v.warnings
           /\ ret' = IF v.raised THEN ret ELSE v.is_valid
           /\ pc' = IF v.raised THEN "raised"
                    ELSE IF pc = "loaded" THEN "validated" ELSE "revalidated"
    /\ UNCHANGED <<model, exprVars>>

NextTree == Validate

\* a complete document around a node dict and a parameter dict
MkModel(root, nodes, params) ==
    [schema_version    |-> "0.1.x",
     model_metadata    |-> [model_type |-> "decision_tree"],
     model_structure   |-> [root_node |-> root, nodes |-> nodes],
     parameters        |-> params,
     analysis_settings |-> "settings"]

(***************************************************************************)
(* Models for the traversal checks: three nodes, branch targets among the  *)
(* nodes and one identifier "x" that is no node, at most MaxEdges branches *)
(***************************************************************************)
MaxEdges == 4

NodeIds == {"n1", "n2", "n3"}
Targets == NodeIds \cup {"x"}

NodeTypeOf(id) ==
    IF id = "n1" THEN "decision" ELSE IF id = "n2" THEN "chance" ELSE "terminal"

GraphNode(id, targets) ==
    [node_type |-> NodeTypeOf(id),
     branches  |-> [i \in DOMAIN targets |->
                       [branch_id |-> i, target_node |-> targets[i]]]]

NodeOrders == {<<"n1", "n2", "n3">>, <<"n3", "n2", "n1">>}

InitGraph ==
    /\ ExprIdle
    /\ \E l1 \in 0..MaxEdges, l2 \in 0..MaxEdges, l3 \in 0..MaxEdges :
          /\ l1 + l2 + l3 <= MaxEdges
          /\ \E b1 \in [1..l1 -> Targets], b2 \in [1..l2 -> Targets],
                b3 \in [1..l3 -> Targets], order \in NodeOrders :
                LET b == [id \in NodeIds |->
                             IF id = "n1" THEN b1
                             ELSE IF id = "n2" THEN b2 ELSE b3]
                IN  Loaded(MkModel("n1",
                        [i \in 1..3 |-> <<order[i], GraphNode(order[i], b[order[i]])>>],
                        << >>))

SpecGraph == InitGraph /\ [][NextTree]_vars

(***************************************************************************)
(* The branch-target graph of the loaded model, as a relation              *)
(***************************************************************************)
ModelNodes == GetList(model["model_structure"], "nodes")
ModelRoot == GetStr(model["model_structure"], "root_node")

RootResolves ==
    /\ "model_structure" \in DOMAIN model
    /\ ModelRoot # ""
    /\ ModelRoot \in DictKeys(ModelNodes)

\* the targets of the branches of node n
Succ(n) ==
    IF NodeFalsy(ModelNodes, n) THEN {}
    ELSE LET branches == GetList(DictGet(ModelNodes, n), "branches")
         IN  {GetStr(branches[i], "target_node") : i \in DOMAIN branches} \ {""}

\* least set that contains S and is closed under Succ
RECURSIVE Closure(_)
Closure(S) ==
    LET S2 == S \cup UNION {Succ(n) : n \in S}
    IN  IF S2 = S THEN S ELSE Closure(S2)

\* some node reachable from the root reaches itself again
GraphHasCycle == \E n \in Closure({ModelRoot}) : n \in Closure(Succ(n))

\* a branch of a reachable node targets that node or one of its ancestors
BackBranch ==
    \E n \in Closure({ModelRoot}) : \E t \in Succ(n) : n \in Closure({t})

\* two branches, of one node or of two, share a target
SharedTarget(t) ==
    \E i, j \in DOMAIN ModelNodes :
        LET bi == GetList(ModelNodes[i][2], "branches")
            bj == GetList(ModelNodes[j][2], "branches")
        IN  \E k \in DOMAIN bi, l \in DOMAIN bj :
               /\ (i # j \/ k # l)
               /\ ModelNodes[i][1] \in Closure({ModelRoot})
               /\ ModelNodes[j][1] \in Closure({ModelRoot})
               /\ GetStr(bi[k], "target_node") = t
               /\ GetStr(bj[l], "target_node") = t

CycleErrors ==
    {i \in DOMAIN errors :
        errors[i] = <<"Model contains cycles (not a valid tree)">>}

\* the identifiers the "Unreachable nodes" warning lists
ListedUnreachable ==
    UNION {warnings[i][2] : i \in {j \in DOMAIN warnings :
                                      warnings[j][1] = "Unreachable nodes"}}

\* C1: validate never reports a cycle for a model whose root resolves and
\* whose branch-target graph from the root is acyclic, shared targets or not
C1_NoCycleErrorIfAcyclic ==
    (pc = "validated" /\ RootResolves /\ ~GraphHasCycle) => CycleErrors = {}

\* C2: if a reachable node has a branch to itself or to one of its
\* ancestors, validate reports the cycle error, and it reports it exactly
\* once however many cycles there are
C2_CycleReportedOnce ==
    (pc = "validated" /\ RootResolves)
        => /\ BackBranch => Cardinality(CycleErrors) = 1
           /\ Cardinality(CycleErrors) <= 1

\* a validated model with two cycles: a self loop and a loop through the root
C2_Witness ==
    /\ pc = "validated"
    /\ RootResolves
    /\ "n2" \in Succ("n2")
    /\ "n1" \in Succ("n2")
    /\ "n2" \in Succ("n1")
    /\ Cardinality(CycleErrors) = 1

\* C7: _get_reachable_nodes returns exactly the identifiers reachable from
\* the root over branch targets; the warning lists every node key that is
\* not the root and no branch's target, and lists no reachable node
C7_ReachableExact ==
    (pc = "validated" /\ RootResolves)
        => /\ get_reachable_nodes(ModelRoot, ModelNodes) = Closure({ModelRoot})
           /\ ListedUnreachable \cap Closure({ModelRoot}) = {}
           /\ \A k \in DictKeys(ModelNodes) :
                 (k # ModelRoot /\ \A n \in DictKeys(ModelNodes) : k \notin Succ(n))
                     => k \in ListedUnreachable

\* a validated model where n2 and "x" are reached, in any branch order, and
\* n3, which nothing targets, is the one node listed
C7_Witness ==
    /\ pc = "validated"
    /\ RootResolves
    /\ "n2" \in Succ("n1")
    /\ Succ("n2") = {"x"}
    /\ Closure({ModelRoot}) = {"n1", "n2", "x"}
    /\ ListedUnreachable = {"n3"}

(***************************************************************************)
(* Models for the probability check: decision n1 -> chance n2 -> terminal  *)
(* n3; n2 has at most MaxProbBranches branches whose probability slot is   *)
(* missing or refers to "a", "b" or the undefined "u"                      *)
(***************************************************************************)
MaxProbBranches == 2

\* base values around 0, 0.5 and 1.0; 1 unit is 2^-14, about 0.61e-4
ProbValues ==
    {0, 1, 2, One \div 2 - 1, One \div 2, One \div 2 + 1,
     One - 2, One - 1, One, One + 1, One + 2}

IdA == <<"a">>
IdB == <<"b">>
IdU == <<"u">>

ProbSlots == {NoRef, IdA, IdB, IdU}

ProbBranch(i, ref) ==
    IF ref = NoRef
    THEN [branch_id |-> i, target_node |-> "n3"]
    ELSE [branch_id |-> i, target_node |-> "n3",
          probability |-> [parameter_ref |-> ref]]

ProbParams(va, vb) ==
    << <<IdA, [type |-> "probability", base_value |-> va]>>,
       <<IdB, IF vb < 0 THEN [type |-> "probability"]
              ELSE [type |-> "probability", base_value |-> vb]>> >>

\* n1 is a decision node whose branch carries a probability as well
ProbNodes(refs) ==
    << <<"n1", [node_type |-> "decision",
                branches |-> << [branch_id |-> 1, target_node |-> "n2",
                                 probability |-> [parameter_ref |-> IdA]] >>]>>,
       <<"n2", [node_type |-> "chance",
                branches |-> [i \in DOMAIN refs |-> ProbBranch(i, refs[i])]]>>,
       <<"n3", [node_type |-> "terminal",
                outcomes |-> [costs |-> << >>, utilities |-> << >>]]>> >>

\* vb = -1 stands for a parameter "b" without a base_value
InitProb ==
    /\ ExprIdle
    /\ \E l \in 0..MaxProbBranches :
          \E refs \in [1..l -> ProbSlots],
             va \in ProbValues, vb \in ProbValues \cup {-1} :
                Loaded(MkModel("n1", ProbNodes(refs), ProbParams(va, vb)))

SpecProb == InitProb /\ [][NextTree]_vars

ModelParams == GetList(model, "parameters")

\* the base value a branch's probability reference resolves to, 0 if none
BranchBaseValue(branch) ==
    LET ref == ParamRefOf(branch, "probability")
    IN  IF ref # NoRef /\ ref \in DictKeys(ModelParams)
           /\ "base_value" \in DOMAIN DictGet(ModelParams, ref)
        THEN DictGet(ModelParams, ref)["base_value"]
        ELSE 0

RECURSIVE SumBaseValues(_, _)
SumBaseValues(branches, i) ==
    IF i > Len(branches) THEN 0
    ELSE BranchBaseValue(branches[i]) + SumBaseValues(branches, i + 1)

NodeProbSum(node) == SumBaseValues(GetList(node, "branches"), 1)

\* the probability-sum errors reported for node id
ProbSumErrors(id) ==
    {i \in DOMAIN errors :
        /\ errors[i][1] = "Probabilities in chance node sum to, should be 1.0"
        /\ errors[i][2] = id}

MaxParams == 1

ParamNames == <<IdA, IdB, <<"c">> >>

ParamTypes ==
    {"probability", "utility", "cost", "rate", "duration", "relative_risk",
     "other"}

RangeValues == {-One - 1, -One, -1, 0, 1, One, One + 1}

BoundsChoices ==
    {[lower |-> 0], [upper |-> One], [lower |-> 0, upper |-> One],
     [lower |-> -One, upper |-> 0]}

\* a parameter with or without base_value and with or without bounds
ParamChoices ==
    {[type |-> t] : t \in ParamTypes}
    \cup {[type |-> t, base_value |-> v] : t \in ParamTypes, v \in RangeValues}
    \cup {[type |-> t, base_value |-> v, bounds |-> b] :
             t \in ParamTypes, v \in RangeValues, b \in BoundsChoices}

InitRanges ==
    /\ ExprIdle
    /\ \E n \in 0..MaxParams :
          \E ps \in [1..n -> ParamChoices] :
             Loaded(MkModel("n1", ProbNodes(<<NoRef>>),
                            [i \in 1..n |-> <<ParamNames[i], ps[i]>>]))

SpecRanges == InitRanges /\ [][NextTree]_vars

RangeErrorKinds ==
    {"outside valid range [0.0, 1.0]", "has negative base_value",
     "has non-positive base_value"}

RangeWarningKinds ==
    {"outside typical range [-1.0, 1.0]", "has negative base_value (cost)"}

BoundsKinds == {"below lower bound", "above upper bound"}

\* the diagnostics of the given kinds that seq holds about parameter id
About(seq, kinds, id) ==
    {i \in DOMAIN seq : seq[i][1] \in kinds /\ seq[i][2] = id}

\* what section 4.4 demands of a parameter's type and base value
TypeError(t, v) ==
    \/ t = "probability" /\ (v < 0 \/ v > One)
    \/ t \in {"rate", "duration"} /\ v < 0
    \/ t = "relative_risk" /\ v <= 0

TypeWarning(t, v) ==
    \/ t = "utility" /\ (v < -One \/ v > One)
    \/ t = "cost" /\ v < 0

BelowLower(param) ==
    /\ "bounds" \in DOMAIN param
    /\ "lower" \in DOMAIN param["bounds"]
    /\ param["base_value"] < param["bounds"]["lower"]

AboveUpper(param) ==
    /\ "bounds" \in DOMAIN param
    /\ "upper" \in DOMAIN param["bounds"]
    /\ param["base_value"] > param["bounds"]["upper"]

\* C9: a parameter with a base value gets the error or the warning of its
\* type exactly when the value is out of the type's range, and independently
\* one warning, never an error, per declared bound the value is outside of
C9_RangeDiagnostics ==
    pc = "validated" =>
        \A i \in DOMAIN ModelParams :
            LET id    == ModelParams[i][1]
                param == ModelParams[i][2]
            IN  "base_value" \in DOMAIN param =>
                LET t == GetStr(param, "type")
                    v == param["base_value"]
                IN  /\ Cardinality(About(errors, RangeErrorKinds, id))
                          = IF TypeError(t, v) THEN 1 ELSE 0
                    /\ Cardinality(About(warnings, RangeWarningKinds, id))
                          = IF TypeWarning(t, v) THEN 1 ELSE 0
                    /\ About(errors, BoundsKinds, id) = {}
                    /\ About(warnings, {"below lower bound"}, id) # {}
                          <=> BelowLower(param)
                    /\ About(warnings, {"above upper bound"}, id) # {}
                          <=> AboveUpper(param)
                    /\ Cardinality(About(warnings, BoundsKinds, id)) <= 2

\* a probability of 1.0 + 2^-14 with upper bound 1.0: one type-range error
\* and one bounds warning for the same parameter
C9_Witness ==
    /\ pc = "validated"
    /\ Len(ModelParams) >= 1
    /\ ModelParams[1][2] = [type |-> "probability", base_value |-> One + 1,
                            bounds |-> [lower |-> 0, upper |-> One]]
    /\ Cardinality(About(errors, RangeErrorKinds, IdA)) = 1
    /\ About(warnings, {"above upper bound"}, IdA) # {}

(***************************************************************************)
(* ExpressionValidator: character classes and the function table           *)
(***************************************************************************)
Letters ==
    {"a", "b", "c", "d", "e", "f", "g", "h", "i", "j", "k", "l", "m", "n", "o", "p", "q", "r", "s", "t", "u", "v", "w", "x", "y", "z",
     "A", "B", "C", "D", "E", "F", "G", "H", "I", "J", "K", "L", "M", "N", "O", "P", "Q", "R", "S", "T", "U", "V", "W", "X", "Y", "Z"}

Digits == {"0", "1", "2", "3", "4", "5", "6", "7", "8", "9"}

\* \w
WordChars == Letters \cup Digits \cup {"_"}

\* [a-zA-Z0-9_-]
IdChars == WordChars \cup {"-"}

\* \s, and what str.strip() removes
Whitespace == {" ", "\t", "\n", "\r", "\f"}

\* the characters the whitelist of _validate_syntax admits
AllowedChars ==
    WordChars \cup Whitespace
    \cup {"-", "+", "*", "/", "^", "%", "(", ")", "<", ">", "=", "!", ",", "."}

\* the keys of FUNCTIONS, in the order of the dict
FUNCTIONS ==
    <<<<"a", "b", "s">>,
      <<"s", "q", "r", "t">>,
      <<"e", "x", "p">>,
      <<"l", "o", "g">>,
      <<"l", "n">>,
      <<"l", "o", "g", "1", "0">>,
      <<"c", "e", "i", "l">>,
      <<"f", "l", "o", "o", "r">>,
      <<"r", "o", "u", "n", "d">>,
      <<"p", "o", "w">>,
      <<"m", "i", "n">>,
      <<"m", "a", "x">>,
      <<"i", "f">>,
      <<"n", "o", "r", "m", "a", "l", "_", "m", "e", "a", "n">>,
      <<"n", "o", "r", "m", "a", "l", "_", "s", "d">>,
      <<"g", "a", "m", "m", "a", "_", "m", "e", "a", "n">>,
      <<"g", "a", "m", "m", "a", "_", "s", "d">>,
      <<"b", "e", "t", "a", "_", "m", "e", "a", "n">>,
      <<"b", "e", "t", "a", "_", "s", "d">>,
      <<"l", "o", "g", "n", "o", "r", "m", "a", "l", "_", "m", "e", "a", "n">>,
      <<"l", "o", "g", "n", "o", "r", "m", "a", "l", "_", "s", "d">>,
      <<"d", "i", "s", "c", "o", "u", "n", "t">>,
      <<"d", "i", "s", "c", "o", "u", "n", "t", "_", "s", "t", "r", "e", "a", "m">>,
      <<"s", "u", "m">>,
      <<"m", "e", "a", "n">>,
      <<"p", "r", "o", "d", "u", "c", "t">>>>

keywords == {<<"a", "n", "d">>, <<"o", "r">>, <<"n", "o", "t">>, <<"i", "f">>}

\* ValidationError(message, location, expression, severity)
ValidationError(message, location, expression, severity) ==
    [message |-> message, location |-> location, expression |-> expression,
     severity |-> severity]

(***************************************************************************)
(* Regular-expression helpers                                              *)
(***************************************************************************)
IsWordAt(s, i) == i >= 1 /\ i <= Len(s) /\ s[i] \in WordChars

\* \b between s[i-1] and s[i]
Boundary(s, i) == IsWordAt(s, i - 1) # IsWordAt(s, i)

\* the first index >= i whose character is not in class cls, Len(s)+1 if none
RECURSIVE SkipClass(_, _, _)
SkipClass(s, i, cls) ==
    IF i <= Len(s) /\ s[i] \in cls THEN SkipClass(s, i + 1, cls) ELSE i

\* pattern in expression
Contains(s, pat) ==
    \E i \in 1..(Len(s) - Len(pat) + 1) : SubSeq(s, i, i + Len(pat) - 1) = pat

\* expression.replace(' ', '')
RECURSIVE RemoveSpaces(_)
RemoveSpaces(s) ==
    IF s = << >> THEN << >>
    ELSE (IF Head(s) = " " THEN << >> ELSE <<Head(s)>>) \o RemoveSpaces(Tail(s))

(***************************************************************************)
(* ExpressionValidator._check_balanced_parens / _validate_syntax           *)
(***************************************************************************)
RECURSIVE balanced_loop(_, _, _)
balanced_loop(e, i, count) ==
    IF i > Len(e) THEN count = 0
    ELSE LET c == IF e[i] = "(" THEN count + 1
                  ELSE IF e[i] = ")" THEN count - 1 ELSE count
         IN  IF c < 0 THEN FALSE ELSE balanced_loop(e, i + 1, c)

\* a check that only compares the number of '(' with the number of ')'
check_balanced_parens_CountOnly(e) ==
    Cardinality({i \in DOMAIN e : e[i] = "("})
        = Cardinality({i \in DOMAIN e : e[i] = ")"})

check_balanced_parens(e) == balanced_loop(e, 1, 0)

bad_patterns == << <<"+", "+">>, <<"*", "*">>, <<"/", "/">>, <<"^", "^">> >>

\* the first bad pattern, in list order, that the stripped expression holds
RECURSIVE FirstBadPattern(_, _)
FirstBadPattern(stripped, i) ==
    IF i > Len(bad_patterns) THEN << >>
    ELSE IF Contains(stripped, bad_patterns[i]) THEN bad_patterns[i]
    ELSE FirstBadPattern(stripped, i + 1)

\* [ok, errors]: the result and what the call appends
validate_syntax(e, location) ==
    IF ~check_balanced_parens(e)
    THEN [ok |-> FALSE,
          errors |-> << ValidationError(<<"Unbalanced parentheses in expression">>,
                                        location, e, "error") >>]
    ELSE LET invalid_chars == {e[i] : i \in DOMAIN e} \ AllowedChars
         IN  IF invalid_chars # {}
             THEN [ok |-> FALSE,
                   errors |-> << ValidationError(
                       <<"Invalid characters in expression", invalid_chars>>,
                       location, e, "error") >>]
             ELSE LET bad == FirstBadPattern(RemoveSpaces(e), 1)
                  IN  IF bad # << >>
                      THEN [ok |-> FALSE,
                            errors |-> << ValidationError(
                                <<"Invalid operator sequence", bad>>,
                                location, e, "error") >>]
                      ELSE [ok |-> TRUE, errors |-> << >>]

(***************************************************************************)
(* ExpressionValidator._validate_parameter_references                      *)
(***************************************************************************)
\* \b func \s* \(  matched at index i: the index of the '(' , or 0
MatchCall(s, func, i) ==
    IF /\ Boundary(s, i)
       /\ i + Len(func) - 1 <= Len(s)
       /\ SubSeq(s, i, i + Len(func) - 1) = func
    THEN LET j == SkipClass(s, i + Len(func), Whitespace)
         IN  IF j <= Len(s) /\ s[j] = "(" THEN j ELSE 0
    ELSE 0

\* re.sub(rf'\b{func}\s*\(', '', s)
RECURSIVE RemoveCalls(_, _, _)
RemoveCalls(s, func, i) ==
    IF i > Len(s) THEN << >>
    ELSE LET m == MatchCall(s, func, i)
         IN  IF m > 0 THEN RemoveCalls(s, func, m + 1)
             ELSE <<s[i]>> \o RemoveCalls(s, func, i + 1)

\* for func in self.FUNCTIONS: temp_expr = re.sub(...)
RECURSIVE RemoveAllCalls(_, _)
RemoveAllCalls(s, k) ==
    IF k > Len(FUNCTIONS) THEN s
    ELSE RemoveAllCalls(RemoveCalls(s, FUNCTIONS[k], 1), k + 1)

\* re.findall(r'\b[a-zA-Z][a-zA-Z0-9_-]*\b', s), from index i on
RECURSIVE FindIdentifiers(_, _)
FindIdentifiers(s, i) ==
    IF i > Len(s) THEN << >>
    ELSE IF s[i] \in Letters /\ Boundary(s, i)
    THEN LET runEnd == SkipClass(s, i + 1, IdChars)
             q == CHOOSE k \in (i + 1)..runEnd :
                     /\ Boundary(s, k)
                     /\ \A k2 \in (k + 1)..runEnd : ~Boundary(s, k2)
         IN  <<SubSeq(s, i, q - 1)>> \o FindIdentifiers(s, q)
    ELSE FindIdentifiers(s, i + 1)

\* parameters_in_expr
ParametersInExpr(e) ==
    Range(FindIdentifiers(RemoveAllCalls(e, 1), 1)) \ keywords

RECURSIVE UnresolvedErrors(_, _, _, _, _)
UnresolvedErrors(params, ids, i, e, location) ==
    IF i > Len(ids) THEN << >>
    ELSE (IF ids[i] \notin DictKeys(params)
          THEN << ValidationError(
                    <<"Parameter referenced in expression but not defined in model",
                      ids[i]>>, location, e, "error") >>
          ELSE << >>)
         \o UnresolvedErrors(params, ids, i + 1, e, location)

validate_expr_parameter_references(params, e, location) ==
    LET errs == UnresolvedErrors(params, SetToSeq(ParametersInExpr(e)), 1,
                                 e, location)
    IN  [ok |-> errs = << >>, errors |-> errs]

(***************************************************************************)
(* ExpressionValidator._validate_functions                                 *)
(***************************************************************************)
\* re.findall(r'([a-zA-Z_][a-zA-Z0-9_]*)\s*\(', s), from index i on
RECURSIVE FindFunctions(_, _)
FindFunctions(s, i) ==
    IF i > Len(s) THEN << >>
    ELSE IF s[i] \in Letters \cup {"_"}
    THEN LET w == SkipClass(s, i + 1, WordChars)
             j == SkipClass(s, w, Whitespace)
         IN  IF j <= Len(s) /\ s[j] = "("
             THEN <<SubSeq(s, i, w - 1)>> \o FindFunctions(s, j + 1)
             ELSE FindFunctions(s, i + 1)
    ELSE FindFunctions(s, i + 1)

RECURSIVE UnknownFunctionErrors(_, _, _, _)
UnknownFunctionErrors(used, i, e, location) ==
    IF i > Len(used) THEN << >>
    ELSE (IF used[i] \notin Range(FUNCTIONS)
          THEN << ValidationError(<<"Unknown function in expression", used[i]>>,
                                  location, e, "error") >>
          ELSE << >>)
         \o UnknownFunctionErrors(used, i + 1, e, location)

validate_functions(e, location) ==
    LET errs == UnknownFunctionErrors(FindFunctions(e, 1), 1, e, location)
    IN  [ok |-> errs = << >>, errors |-> errs]

(***************************************************************************)
(* ExpressionValidator._check_expression_warnings                          *)
(***************************************************************************)
LongExpressionLen == 200

check_expression_warnings(e, location) ==
    (IF "/" \in Range(e)
     THEN << ValidationError(
               <<"Expression contains division - ensure denominator cannot be zero">>,
               location, e, "warning") >>
     ELSE << >>)
    \o (IF "^" \in Range(e)
        THEN << ValidationError(
                  <<"Expression contains exponentiation - be careful of numeric overflow">>,
                  location, e, "warning") >>
        ELSE << >>)
    \o (IF Len(e) > LongExpressionLen
        THEN << ValidationError(
                  <<"Expression is very long - consider breaking into intermediate parameters">>,
                  location, e, "warning") >>
        ELSE << >>)

(***************************************************************************)
(* ExpressionValidator.validate_expression                                 *)
(***************************************************************************)
\* not expression or not expression.strip()
IsBlank(e) == \A i \in DOMAIN e : e[i] \in Whitespace

ErrorCount(errs) ==
    Cardinality({i \in DOMAIN errs : errs[i].severity = "error"})

\* the value of the final return statement, given the whole accumulator
FinalReturn(errs) == ErrorCount(errs) = 0

\* [ret, errors]: the return value and self.errors after the call, given
\* self.errors = errs before it
validate_expression(params, errs, e, location) ==
    IF IsBlank(e)
    THEN [ret |-> FALSE,
          errors |-> Append(errs, ValidationError(<<"Expression cannot be empty">>,
                                                  location, e, "error"))]
    ELSE LET syn == validate_syntax(e, location)
         IN  IF ~syn.ok THEN [ret |-> FALSE, errors |-> errs \o syn.errors]
             ELSE
             LET refs == validate_expr_parameter_references(params, e, location)
             IN  IF ~refs.ok THEN [ret |-> FALSE, errors |-> errs \o refs.errors]
                 ELSE
                 LET fns == validate_functions(e, location)
                 IN  IF ~fns.ok
                     THEN [ret |-> FALSE, errors |-> errs \o fns.errors]
                     ELSE LET all == errs \o check_expression_warnings(e, location)
                          IN  [ret |-> FinalReturn(all), errors |-> all]

(***************************************************************************)
(* State machine of ExpressionValidator: constructed over a registry,      *)
(* validate_expression is called on expressions the caller chooses         *)
(***************************************************************************)
\* ExpressionValidator(params)
Constructed(params) ==
    /\ parameters = params
    /\ ev_errors = << >>
    /\ ev_ret = TRUE
    /\ ev_expr = << >>
    /\ ev_mark = 0
    /\ ev_calls = 0

ValidateExpression(e) ==
    /\ LET r == validate_expression(parameters, ev_errors, e, "loc")
       IN  /\ ev_errors' = r.errors
           /\ ev_ret' = r.ret
    /\ ev_expr' = e
    /\ ev_mark' = Len(ev_errors)
    /\ ev_calls' = ev_calls + 1
    /\ UNCHANGED <<parameters, treeVars>>

\* all strings over alphabet of length at most n
Exprs(alphabet, n) == UNION {[1..k -> alphabet] : k \in 0..n}

Registry(ids) == [i \in DOMAIN ids |-> <<ids[i], [base_value |-> One]>>]

(***************************************************************************)
(* One call on any expression of at most MaxExprLen characters             *)
(***************************************************************************)
MaxExprLen == 5

ExprAlphabet == {"a", "l", "n", "(", ")", "-", " "}

Registries == {Registry(<< >>), Registry(<<IdA>>)}

InitExpr ==
    /\ TreeIdle
    /\ \E params \in Registries : Constructed(params)

NextExpr ==
    /\ ev_calls = 0
    /\ \E e \in Exprs(ExprAlphabet, MaxExprLen) : ValidateExpression(e)

SpecExpr == InitExpr /\ [][NextExpr]_vars

(***************************************************************************)
(* Up to MaxCalls calls on one instance, expressions of at most            *)
(* MaxSeqExprLen characters                                                *)
(***************************************************************************)
MaxCalls == 2
MaxSeqExprLen == 2

SeqAlphabet == {"a", "(", "/"}

InitExprSeq ==
    /\ TreeIdle
    /\ Constructed(Registry(<<IdA>>))

NextExprSeq ==
    /\ ev_calls < MaxCalls
    /\ \E e \in Exprs(SeqAlphabet, MaxSeqExprLen) : ValidateExpression(e)

SpecExprSeq == InitExprSeq /\ [][NextExprSeq]_vars

(***************************************************************************)
(* What the last call appended                                             *)
(***************************************************************************)
Appended == SubSeq(ev_errors, ev_mark + 1, Len(ev_errors))

AppendedErrors == {i \in DOMAIN Appended : Appended[i].severity = "error"}

AppendedWarnings == {i \in DOMAIN Appended : Appended[i].severity = "warning"}

\* the last expression passed the emptiness and the syntax pass
SyntaxAccepted == ~IsBlank(ev_expr) /\ validate_syntax(ev_expr, "loc").ok

\* the arguments of the messages of the given kind among Appended
Named(kind) ==
    {Appended[i].message[2] :
        i \in {j \in DOMAIN Appended : Appended[j].message[1] = kind}}

\* C4: validate_expression returns True iff checking the expression itself
\* produced no error-severity diagnostic, whatever earlier calls left in
\* the accumulator; warnings never make it False
C4_ReturnIffOwnErrors ==
    ev_calls >= 1 => (ev_ret <=> AppendedErrors = {})

\* the number of '(' and of ')' among the first n characters of e
Opens(e, n) == Cardinality({i \in 1..n : e[i] = "("})
Closes(e, n) == Cardinality({i \in 1..n : e[i] = ")"})

PrefixBalanced(e) ==
    /\ \A n \in 0..Len(e) : Opens(e, n) >= Closes(e, n)
    /\ Opens(e, Len(e)) = Closes(e, Len(e))

UnbalancedError(e) ==
    ValidationError(<<"Unbalanced parentheses in expression">>, "loc", e, "error")

\* C10: _check_balanced_parens is True exactly when the running count of
\* '(' minus ')' never goes negative and ends at zero; an unbalanced
\* expression gets the one error "Unbalanced parentheses in expression"
\* and no later pass runs on it
C10_BalancedParens ==
    ev_calls >= 1 =>
        /\ check_balanced_parens(ev_expr) <=> PrefixBalanced(ev_expr)
        /\ ~PrefixBalanced(ev_expr)
              => /\ Appended = <<UnbalancedError(ev_expr)>>
                 /\ ev_ret = FALSE
        /\ PrefixBalanced(ev_expr)
              => \A i \in DOMAIN Appended :
                    Appended[i].message # <<"Unbalanced parentheses in expression">>

\* ")a(": as many '(' as ')', but the count goes negative; the call appended
\* the one error although "a" is not registered
C10_Witness ==
    /\ ev_calls = 1
    /\ ev_expr = <<")", "a", "(">>
    /\ parameters = << >>
    /\ Appended = <<UnbalancedError(ev_expr)>>
    /\ ~ev_ret

(***************************************************************************)
(* Identifiers and call names of an expression, read off the text: a name  *)
(* is a maximal run of letters, digits and '_' that starts with a letter   *)
(***************************************************************************)
\* <<first, last>> index pairs of the names of e
NameSpans(e) ==
    {<<i, j>> \in (DOMAIN e) \X (DOMAIN e) :
        /\ i <= j
        /\ e[i] \in Letters
        /\ \A k \in i..j : e[k] \in WordChars
        /\ ~IsWordAt(e, i - 1)
        /\ ~IsWordAt(e, j + 1)}

NameOf(e, span) == SubSeq(e, span[1], span[2])

FollowedByParen(e, span) == span[2] < Len(e) /\ e[span[2] + 1] = "("

\* the identifiers C5 speaks of
ParameterSpans(e) ==
    {sp \in NameSpans(e) :
        /\ NameOf(e, sp) \notin Range(FUNCTIONS)
        /\ NameOf(e, sp) \notin keywords
        /\ ~FollowedByParen(e, sp)}

UnresolvedKind == "Parameter referenced in expression but not defined in model"

\* C5: of the identifiers of a syntactically accepted expression that are
\* no function, no keyword and not followed by '(', exactly the unregistered
\* ones get an unresolved-parameter error; an expression all of whose names
\* are such identifiers and registered gets no unresolved-parameter error
C5_UnresolvedIffUnregistered ==
    (ev_calls = 1 /\ SyntaxAccepted) =>
        /\ \A sp \in ParameterSpans(ev_expr) :
              NameOf(ev_expr, sp) \in Named(UnresolvedKind)
                  <=> NameOf(ev_expr, sp) \notin DictKeys(parameters)
        /\ (\A sp \in NameSpans(ev_expr) :
               /\ sp \in ParameterSpans(ev_expr)
               /\ NameOf(ev_expr, sp) \in DictKeys(parameters))
              => Named(UnresolvedKind) = {}

\* C6: in a syntactically accepted expression every name followed by '('
\* that is not in the function table gets the error "Unknown function",
\* and no name of the table gets it
C6_UnknownFunctionReported ==
    (ev_calls = 1 /\ SyntaxAccepted) =>
        /\ \A sp \in NameSpans(ev_expr) :
              (FollowedByParen(ev_expr, sp)
                 /\ NameOf(ev_expr, sp) \notin Range(FUNCTIONS))
                  => NameOf(ev_expr, sp) \in Named("Unknown function in expression")
        /\ Named("Unknown function in expression") \cap Range(FUNCTIONS) = {}

(***************************************************************************)
(* Models for the reference check: the tree n1 -> n2 -> n3 with parameters *)
(* "a" and "b" defined and at most MaxSlots value slots populated          *)
(***************************************************************************)
MaxSlots == 2

SlotPositions ==
    {"decision.initial_cost", "decision.probability",
     "chance.probability", "chance.initial_cost",
     "cost.value", "cost.duration_years",
     "utility.value", "utility.duration_years", "life_years"}

\* ParameterRef to a defined and to an undefined parameter, Expression
\* naming "a" and naming "b"
SlotValues ==
    {[parameter_ref |-> IdA], [parameter_ref |-> IdU],
     [expression |-> <<"a">>],
     [expression |-> <<"b", " ", "*", " ", "2">>, description |-> "twice b"]}

\* base extended by the fields of `fields` that slots populates; names maps
\* a field to its slot position
WithSlots(base, names, slots) ==
    LET present == {f \in DOMAIN names : names[f] \in DOMAIN slots}
    IN  [f \in DOMAIN base \cup present |->
            IF f \in present THEN slots[names[f]] ELSE base[f]]

RefsNodes(slots) ==
    << <<"n1", [node_type |-> "decision",
                branches |-> << WithSlots(
                    [branch_id |-> 1, target_node |-> "n2"],
                    [initial_cost |-> "decision.initial_cost",
                     probability  |-> "decision.probability"], slots) >>]>>,
       <<"n2", [node_type |-> "chance",
                branches |-> << WithSlots(
                    [branch_id |-> 1, target_node |-> "n3"],
                    [initial_cost |-> "chance.initial_cost",
                     probability  |-> "chance.probability"], slots) >>]>>,
       <<"n3", [node_type |-> "terminal",
                outcomes |-> WithSlots(
                    [costs |-> << WithSlots([name |-> "cost"],
                                     [value |-> "cost.value",
                                      duration_years |-> "cost.duration_years"],
                                     slots) >>,
                     utilities |-> << WithSlots([name |-> "utility"],
                                     [value |-> "utility.value",
                                      duration_years |-> "utility.duration_years"],
                                     slots) >>],
                    [life_years |-> "life_years"], slots)]>> >>

RefsParams ==
    << <<IdA, [type |-> "cost", base_value |-> One]>>,
       <<IdB, [type |-> "cost", base_value |-> One]>> >>

InitRefs ==
    /\ ExprIdle
    /\ \E S \in SUBSET SlotPositions :
          /\ Cardinality(S) <= MaxSlots
          /\ \E slots \in [S -> SlotValues] :
                Loaded(MkModel("n1", RefsNodes(slots), RefsParams))

SpecRefs == InitRefs /\ [][NextTree]_vars

\* every value slot of the tree
ItemSlots(items) ==
    UNION {{GetObj(items[i], "value"), GetObj(items[i], "duration_years")} :
              i \in DOMAIN items}

NodeSlots(node) ==
    LET branches == GetList(node, "branches")
        outcomes == GetObj(node, "outcomes")
    IN  UNION {{GetObj(branches[i], "probability"),
                GetObj(branches[i], "initial_cost")} : i \in DOMAIN branches}
        \cup ItemSlots(GetList(outcomes, "costs"))
        \cup ItemSlots(GetList(outcomes, "utilities"))
        \cup {GetObj(outcomes, "life_years")}

TreeSlots == UNION {NodeSlots(ModelNodes[i][2]) : i \in DOMAIN ModelNodes}

\* the parameters a slot references: as a ParameterRef, or named in its
\* Expression
SlotReferences(slot) ==
    IF "parameter_ref" \in DOMAIN slot THEN {slot["parameter_ref"]}
    ELSE IF "expression" \in DOMAIN slot THEN ParametersInExpr(slot["expression"])
    ELSE {}

ParameterRefs ==
    {slot["parameter_ref"] :
        slot \in {sl \in TreeSlots : "parameter_ref" \in DOMAIN sl}}

TreeReferences == UNION {SlotReferences(slot) : slot \in TreeSlots}

ListedUnused ==
    UNION {warnings[i][2] :
              i \in {j \in DOMAIN warnings :
                        warnings[j][1] = "Unused parameters (not referenced in model)"}}

\* C8: every ParameterRef to an identifier that is no key of the parameter
\* mapping has the "Referenced parameter not defined" error, and a defined
\* parameter is listed as unused iff no slot references it, as a
\* ParameterRef or by name inside an Expression
C8_ReferenceClosure ==
    (pc = "validated" /\ "parameters" \in DOMAIN model) =>
        /\ \A id \in ParameterRefs \ DictKeys(ModelParams) :
              \E i \in DOMAIN errors :
                 errors[i] = <<"Referenced parameter not defined in parameters section", id>>
        /\ \A id \in DictKeys(ModelParams) :
              id \in ListedUnused <=> id \notin TreeReferences


(***************************************************************************)
(* ExpressionValidator.validate_model: every value slot that the kind of   *)
(* its node owns is handed to _validate_value_reference                    *)
(***************************************************************************)
\* _validate_value_reference(owner.get(field), location); a missing field
\* is None, a number is either falsy or not a dict
validate_value_reference(params, errs, owner, field, location) ==
    IF field \notin DOMAIN owner THEN errs
    ELSE LET value_ref == owner[field]
         IN  IF IsNumber(value_ref) \/ DOMAIN value_ref = {} THEN errs
             ELSE IF "parameter_ref" \in DOMAIN value_ref
             THEN IF value_ref["parameter_ref"] \notin DictKeys(params)
                  THEN Append(errs,
                         [message  |-> <<"Parameter not found in model parameters",
                                         value_ref["parameter_ref"]>>,
                          location |-> location,
                          severity |-> "error"])
                  ELSE errs
             ELSE IF "expression" \in DOMAIN value_ref
             THEN validate_expression(params, errs, value_ref["expression"],
                                      location).errors
             ELSE errs

\* the loops over outcomes.costs and outcomes.utilities; enumerate counts
\* from 0
RECURSIVE validate_items(_, _, _, _, _, _)
validate_items(params, errs, node_id, items, i, what) ==
    IF i > Len(items) THEN errs
    ELSE LET e1 == validate_value_reference(params, errs, items[i], "value",
                       <<"node", node_id, what, i - 1>>)
             e2 == validate_value_reference(params, e1, items[i],
                       "duration_years",
                       <<"node", node_id, what, i - 1, "duration">>)
         IN  validate_items(params, e2, node_id, items, i + 1, what)

\* branch.get('branch_id') as the location prints it
BranchId(branch) ==
    IF "branch_id" \in DOMAIN branch THEN branch["branch_id"] ELSE "None"

\* the loops over the branches of a chance or of a decision node
RECURSIVE validate_branches(_, _, _, _, _, _)
validate_branches(params, errs, node_id, branches, i, field) ==
    IF i > Len(branches) THEN errs
    ELSE validate_branches(params,
             validate_value_reference(params, errs, branches[i], field,
                 <<"node", node_id, "branch", BranchId(branches[i])>>),
             node_id, branches, i + 1, field)

\* the body of the loop over nodes
validate_node(params, errs, node_id, node) ==
    LET node_type == GetStr(node, "node_type")
        outcomes  == GetObj(node, "outcomes")
    IN  IF node_type = "terminal"
        THEN LET c == validate_items(params, errs, node_id,
                          GetList(outcomes, "costs"), 1, "cost item")
                 u == validate_items(params, c, node_id,
                          GetList(outcomes, "utilities"), 1, "utility item")
             IN  validate_value_reference(params, u, outcomes, "life_years",
                     <<"node", node_id, "life_years">>)
        ELSE IF node_type = "chance"
        THEN validate_branches(params, errs, node_id,
                 GetList(node, "branches"), 1, "probability")
        ELSE IF node_type = "decision"
        THEN validate_branches(params, errs, node_id,
                 GetList(node, "branches"), 1, "initial_cost")
        ELSE errs

RECURSIVE validate_node_expressions(_, _, _, _)
validate_node_expressions(params, errs, nodes, i) ==
    IF i > Len(nodes) THEN errs
    ELSE validate_node_expressions(params,
             validate_node(params, errs, nodes[i][1], nodes[i][2]),
             nodes, i + 1)

\* self.errors = [] at the top of validate_model
ResetErrors(old) == << >>

validate_model(params, errs, m) ==
    validate_node_expressions(params, ResetErrors(errs),
        GetList(GetObj(m, "model_structure"), "nodes"), 1)

\* validator = ExpressionValidator(model['parameters'])
ConstructedFor(m) == Constructed(GetList(m, "parameters"))

\* one call of validate_model(model); it returns the accumulator itself
ValidateModel ==
    /\ ev_errors' = validate_model(parameters, ev_errors, model)
    /\ ev_expr' = << >>
    /\ ev_mark' = 0
    /\ ev_calls' = ev_calls + 1
    /\ UNCHANGED <<ev_ret, parameters, treeVars>>


(***************************************************************************)
(* Both validators on one loaded document, each run up to twice.  The      *)
(* document is the three-node tree of RefsNodes with at most MaxFullSlots  *)
(* value slots populated and one of the shapes below.                      *)
(***************************************************************************)
MaxFullSlots == 1

\* a Literal written as a bare number, and an Expression naming an
\* unregistered parameter
Literal == [literal |-> One]

FullSlotValues ==
    SlotValues \cup {Literal, [expression |-> <<"a", "/", "u">>]}

\* rec with field f set to v
WithField(rec, f, v) ==
    [g \in DOMAIN rec \cup {f} |-> IF g = f THEN v ELSE rec[g]]

Shapes ==
    {"plain", "no root", "unresolved root", "missing target",
     "terminal with branches", "decision with outcomes"}

ShapeRoot(shape) ==
    IF shape = "no root" THEN ""
    ELSE IF shape = "unresolved root" THEN "x"
    ELSE "n1"

ShapeNodes(shape, slots) ==
    LET nodes == RefsNodes(slots)
    IN  IF shape = "missing target"
        THEN [nodes EXCEPT ![2][2].branches[1].target_node = "x"]
        ELSE IF shape = "terminal with branches"
        THEN [nodes EXCEPT ![3][2] = WithField(@, "branches",
                 << [branch_id |-> 1, target_node |-> "n1",
                     probability |-> [parameter_ref |-> IdU]] >>)]
        ELSE IF shape = "decision with outcomes"
        THEN [nodes EXCEPT ![1][2] = WithField(@, "outcomes",
                 [life_years |-> [parameter_ref |-> IdB]])]
        ELSE nodes

InitFull ==
    \E shape \in Shapes :
    \E S \in SUBSET SlotPositions :
       /\ Cardinality(S) <= MaxFullSlots
       /\ \E slots \in [S -> FullSlotValues] :
           LET m == MkModel(ShapeRoot(shape), ShapeNodes(shape, slots),
                            RefsParams)
           IN  Loaded(m) /\ ConstructedFor(m)

NextFull ==
    \/ Validate
    \/ ev_calls < MaxCalls /\ ValidateModel

SpecFull == InitFull /\ [][NextFull]_vars

\* C11: a second run on the same unmodified document gives the results of
\* the first: validate() returns again, with the same is_valid, the same
\* error sequence and the same warning sequence, and validate_model returns
\* the same diagnostic sequence; nothing is carried over or duplicated.
C11_SecondRunIdentical ==
    [][ /\ (pc = "validated" /\ pc' # pc) =>
              /\ pc' = "revalidated"
              /\ errors' = errors
              /\ warnings' = warnings
              /\ ret' = ret
        /\ (ev_calls >= 1 /\ ev_calls' = ev_calls + 1) =>
              ev_errors' = ev_errors ]_vars

C11_Witness ==
    /\ pc = "revalidated"
    /\ ev_calls = 2
    /\ errors # << >>
    /\ warnings # << >>
    /\ ev_errors # << >>


\* the payload of every node is the one of its kind: no branches on a
\* terminal node, no outcomes on a decision or chance node
KindConforming ==
    \A i \in DOMAIN ModelNodes :
        LET node == ModelNodes[i][2]
        IN  IF GetStr(node, "node_type") = "terminal"
            THEN "branches" \notin DOMAIN node
            ELSE "outcomes" \notin DOMAIN node

\* C12: on every loaded document that conforms to the data model, a value
\* slot holding a Literal number, an unresolvable root and a branch to a
\* missing node included, validate() finishes by returning its result and
\* never ends in an exception.
C12_ValidateNeverRaises ==
    KindConforming => pc # "raised"


\* the branches <<node, branch>> of chance nodes whose probability carries
\* no parameter reference or one that names no declared parameter
UnresolvedBranches ==
    UNION {{<<i, j>> : j \in {k \in DOMAIN GetList(ModelNodes[i][2], "branches") :
                LET ref == ParamRefOf(ModelNodes[i][2]["branches"][k],
                                      "probability")
                IN  ref = NoRef \/ ref \notin DictKeys(ModelParams)}} :
           i \in {n \in DOMAIN ModelNodes :
                    GetStr(ModelNodes[n][2], "node_type") = "chance"}}

\* the errors the probability pass reports about a single branch
BranchErrors ==
    {k \in DOMAIN errors :
        errors[k][1] = "Parameter referenced but not defined"}

\* C13: in the probability-conservation check every chance branch whose
\* probability has no parameter reference or an unresolved one contributes
\* 0 to the sum of its node and is reported by an error of its own, apart
\* from the sum error.
C13_UnresolvedBranchReported ==
    pc = "validated" =>
        /\ Cardinality(BranchErrors) = Cardinality(UnresolvedBranches)
        /\ \A k \in DOMAIN errors :
              errors[k][1] = "Probabilities in chance node sum to, should be 1.0"
                  => errors[k][3] = NodeProbSum(DictGet(ModelNodes, errors[k][2]))


(***************************************************************************)
(* One call of validate_expression on an expression of at most            *)
(* MaxOpsExprLen characters made of operands, operators and whitespace     *)
(***************************************************************************)
MaxOpsExprLen == 3

OpsAlphabet == {"a", "u", "/", "^", "+", " ", "\t"}

OpsExprs == Exprs(OpsAlphabet, MaxOpsExprLen)

InitExprOps ==
    /\ TreeIdle
    /\ Constructed(Registry(<<IdA>>))

NextExprOps ==
    /\ ev_calls = 0
    /\ \E e \in OpsExprs : ValidateExpression(e)

SpecExprOps == InitExprOps /\ [][NextExprOps]_vars

\* the call appended a warning with this message
Warned(message) ==
    \E i \in AppendedWarnings : Appended[i].message = <<message>>

\* C14: for a non-empty expression that passes the syntax pass, the
\* advisory warnings (division, exponentiation, more than 200 characters)
\* are appended whether or not the reference pass or the function pass
\* reported errors, and they come after the errors of that expression.
C14_WarningsRegardlessOfErrors ==
    (ev_calls = 1 /\ SyntaxAccepted) =>
        /\ Warned("Expression contains division - ensure denominator cannot be zero")
               <=> "/" \in Range(ev_expr)
        /\ Warned("Expression contains exponentiation - be careful of numeric overflow")
               <=> "^" \in Range(ev_expr)
        /\ Warned("Expression is very long - consider breaking into intermediate parameters")
               <=> Len(ev_expr) > LongExpressionLen
        /\ \A w \in AppendedWarnings : \A r \in AppendedErrors : r < w

\* the expression without any whitespace character
WithoutWhitespace(e) == SelectSeq(e, LAMBDA c : c \notin Whitespace)

\* C15: for an expression with balanced parentheses and whitelisted
\* characters only, the syntax pass appends "Invalid operator sequence"
\* exactly when the expression with all its whitespace removed (blanks,
\* tabs, newlines) contains "++", "**", "//" or "^^".
C15_OperatorSequenceIffStripped ==
    (/\ ev_calls = 1
     /\ ~IsBlank(ev_expr)
     /\ PrefixBalanced(ev_expr)
     /\ Range(ev_expr) \subseteq AllowedChars) =>
        (Named("Invalid operator sequence") # {}
            <=> \E i \in DOMAIN bad_patterns :
                   Contains(WithoutWhitespace(ev_expr), bad_patterns[i]))


\* the node without the payload of another kind: a terminal node loses its
\* branches, a decision or chance node its outcomes
WithoutField(rec, f) == [g \in DOMAIN rec \ {f} |-> rec[g]]

OwnPayload(node) ==
    IF GetStr(node, "node_type") = "terminal"
    THEN WithoutField(node, "branches")
    ELSE WithoutField(node, "outcomes")

OwnPayloadModel ==
    [model EXCEPT !.model_structure.nodes =
        [i \in DOMAIN @ |-> <<@[i][1], OwnPayload(@[i][2])>>]]

\* two diagnostic sequences are the same, kind by kind
SameDiagnostics(a, b) ==
    /\ Len(a) = Len(b)
    /\ \A i \in DOMAIN a : a[i][1] = b[i][1] /\ a[i] = b[i]

\* C16: the kind of a node is authoritative: validate() and validate_model
\* give the diagnostics they give for the document in which every terminal
\* node has lost its branches and every decision or chance node its
\* outcomes; a mismatched payload adds no cycle, no reachability and no
\* parameter reference.
C16_KindAuthoritative ==
    /\ pc \in {"validated", "revalidated"} =>
          LET v == validate(OwnPayloadModel)
          IN  /\ ~v.raised
              /\ ret = v.is_valid
              /\ SameDiagnostics(errors, v.errors)
              /\ SameDiagnostics(warnings, v.warnings)
    /\ ev_calls >= 1 =>
          ev_errors = validate_model(parameters, << >>, OwnPayloadModel)

====
